---- MODULE Spec2Model ----
(***************************************************************************)
(* Model of tools/amd_build/build_amd.py: the top-level HIPify driver.     *)
(* The script parses one flag, launches "git apply" for every patch file   *)
(* (subprocess.Popen, never waited for), rewrites every .cpp/.h file under *)
(* <proj>/torch in place (two str.replace calls), and calls                *)
(* hipify_python.hipify.  Strings are modelled as TLA+ strings, character  *)
(* by character; the file system is a function from paths to contents.     *)
(***************************************************************************)
EXTENDS Integers, Sequences, FiniteSets, TLC

\* ------------------------------------------------------------------ bounds
\* number of files os.listdir finds in the patches folder
NumPatches == 2
\* initial file contents are concatenations of at most this many Pieces
MaxPieces == 2

\* ------------------------------------------------------- string functions
\* str.startswith
StartsWith(s, prefix) ==
    Len(s) >= Len(prefix) /\ SubSeq(s, 1, Len(prefix)) = prefix

\* str.endswith
EndsWith(s, suffix) ==
    Len(s) >= Len(suffix) /\ SubSeq(s, Len(s) - Len(suffix) + 1, Len(s)) = suffix

\* str.replace(old, new) for a non-empty old, on the text from index i on:
\* leftmost occurrences, scanning left to right, never rescanning the text
\* it has inserted
RECURSIVE ReplaceFrom(_, _, _, _)
ReplaceFrom(s, i, old, new) ==
    IF i + Len(old) - 1 > Len(s) THEN SubSeq(s, i, Len(s))
    ELSE IF SubSeq(s, i, i + Len(old) - 1) = old
         THEN new \o ReplaceFrom(s, i + Len(old), old, new)
         ELSE SubSeq(s, i, i) \o ReplaceFrom(s, i + 1, old, new)

\* str.replace(old, new)
Replace(s, old, new) == ReplaceFrom(s, 1, old, new)

\* os.path.join of a directory and a relative name
Join(dir, name) == dir \o "/" \o name

\* write(2) of data at offset pos of a file holding old: bytes past the
\* written range stay as they were
Overwrite(old, pos, data) ==
    SubSeq(old, 1, pos) \o data
    \o (IF pos + Len(data) < Len(old)
        THEN SubSeq(old, pos + Len(data) + 1, Len(old)) ELSE "")

\* ---------------------------------------------------- the script's constants
amd_build_dir == "/pytorch/tools/amd_build"
proj_dir == "/pytorch"

INCLUDES ==
    << "caffe2/operators/*", "caffe2/sgd/*", "caffe2/image/*",
       "caffe2/transforms/*", "caffe2/video/*", "caffe2/distributed/*",
       "caffe2/queue/*", "binaries/*", "caffe2/**/*_test*", "caffe2/core/*",
       "caffe2/db/*", "caffe2/utils/*", "c10/cuda/*", "aten/*", "torch/*" >>

IGNORES ==
    << "caffe2/operators/depthwise_3x3_conv_op_cudnn.cu",
       "caffe2/operators/pool_op_cudnn.cu", "**/hip/**",
       "aten/src/ATen/core/*" >>

ignore_files ==
    << "csrc/autograd/profiler.h", "csrc/autograd/profiler.cpp",
       "csrc/cuda/cuda_check.h" >>

disabled_features_json == Join(amd_build_dir, "disabled_features.json")
torch_dir == Join(proj_dir, "torch")

\* reduce(lambda result, exclude: source.endswith(exclude) or result,
\*        ignore_files, False), folded over the first n entries
RECURSIVE ReduceExcluded(_, _)
ReduceExcluded(source, n) ==
    IF n = 0 THEN FALSE
    ELSE EndsWith(source, ignore_files[n]) \/ ReduceExcluded(source, n - 1)

\* the exclusion test as a comparison with the three paths below torch
IsDisabledExact(source) ==
    \E i \in 1..Len(ignore_files) : source = Join(torch_dir, ignore_files[i])

IsDisabledFile(source) == ReduceExcluded(source, Len(ignore_files))

\* filename.endswith(".cpp") or filename.endswith(".h")
IsCppOrHeader(filename) == EndsWith(filename, ".cpp") \/ EndsWith(filename, ".h")

\* ------------------------------------------------------------ environment
\* The project tree the script runs on: (directory, file name) pairs.
Tree ==
    { << "/pytorch/torch/csrc", "Module.cpp" >>,
      << "/pytorch/torch/csrc/utils", "cuda_enabled.h" >>,
      << "/pytorch/torch/csrc/cuda", "cuda_check.h" >>,
      << "/pytorch/torch/csrc/autograd", "profiler.cpp" >>,
      << "/pytorch/torch/foo/xcsrc/cuda", "cuda_check.h" >>,
      << "/pytorch/torch", "version.py" >>,
      << "/pytorch/aten/src", "ATen.h" >> }

PathOf(e) == Join(e[1], e[2])
Paths == { PathOf(e) : e \in Tree }

\* a path lies in the subtree rooted at dir
Under(dir, path) == StartsWith(path, dir \o "/")

\* the entries os.walk(top) yields: every file whose directory is top or
\* below it
WalkEntries(top) == { e \in Tree : e[1] = top \/ Under(top, e[1]) }

\* the two traversal orders considered for os.walk over the sample tree
WalkOrderA ==
    << << "/pytorch/torch", "version.py" >>,
       << "/pytorch/torch/csrc", "Module.cpp" >>,
       << "/pytorch/torch/csrc/autograd", "profiler.cpp" >>,
       << "/pytorch/torch/csrc/cuda", "cuda_check.h" >>,
       << "/pytorch/torch/csrc/utils", "cuda_enabled.h" >>,
       << "/pytorch/torch/foo/xcsrc/cuda", "cuda_check.h" >>,
       << "/pytorch/aten/src", "ATen.h" >> >>

Reverse(s) == [ i \in 1..Len(s) |-> s[Len(s) + 1 - i] ]

\* os.walk(top) as a list, in one of the orders
Walk(top, order) == SelectSeq(order, LAMBDA e : e \in WalkEntries(top))

\* initial file contents: concatenations of the marker strings and of parts
\* of them
Pieces == { "USE_CUDA", "CUDA_VERSION", "USE_", ";" }

RECURSIVE Concats(_)
Concats(n) ==
    IF n = 0 THEN { "" }
    ELSE LET prev == Concats(n - 1)
         IN  prev \cup { a \o b : a \in prev, b \in Pieces }

Contents == Concats(MaxPieces)

\* the patch files of the patches folder, and the file each one changes
\* (paths in a patch are relative to the cwd of git apply, proj_dir)
Patches == 1..NumPatches
PatchTarget(p) ==
    IF p % 2 = 1 THEN "/pytorch/torch/csrc/Module.cpp"
    ELSE "/pytorch/aten/src/ATen.h"
\* the content git apply leaves in a file that held c
PatchText(c) == c \o "\n#define USE_CUDA"

\* ------------------------------------------------------------------ state
VARIABLES
    out_of_place_only,  \* args.out_of_place_only
    pc,                 \* the line the script is about to run
    json_file,          \* json_file
    includes,           \* the includes list
    ignores,            \* the ignores list
    todo,               \* patch files os.listdir returned, not yet iterated
    proc,               \* state of each patch's git apply child process
    walk,               \* entries of os.walk still to come
    source,             \* source
    contents,           \* contents
    f,                  \* the open file object: path, position, write buffer
    fs,                 \* on-disk content of every file
    orig,               \* on-disk content when the script started
    opened,             \* paths the script has opened
    order,              \* the order os.walk yields the tree in
    hipifyCalls         \* arguments of every hipify_python.hipify call

vars == << out_of_place_only, pc, json_file, includes, ignores, todo, proc,
           walk, source, contents, f, fs, orig, opened, order, hipifyCalls >>

NoFile == [ path |-> "", pos |-> 0, buf |-> "" ]

Init ==
    /\ out_of_place_only \in BOOLEAN
    /\ pc = "L49"
    /\ json_file = ""
    /\ includes = INCLUDES
    /\ ignores = IGNORES
    /\ todo = {}
    /\ proc = [ p \in Patches |-> "none" ]
    /\ walk = << >>
    /\ source = ""
    /\ contents = ""
    /\ f = NoFile
    /\ \E text \in Contents : fs = [ p \in Paths |-> text ]
    /\ orig = fs
    /\ opened = {}
    /\ order \in { WalkOrderA, Reverse(WalkOrderA) }
    /\ hipifyCalls = << >>

\* ---------------------------------------------------------------- actions
\* Branch with the test of the flag left out: the in-place steps always run
BranchIgnoringFlag ==
    /\ pc = "L49"
    /\ json_file' = disabled_features_json
    /\ pc' = "L56"
    /\ UNCHANGED << out_of_place_only, includes, ignores, todo, proc, walk,
                    source, contents, f, fs, orig, opened, order, hipifyCalls >>

\* Branch with the settings file assigned before the test of the flag
BranchJsonAlways ==
    /\ pc = "L49"
    /\ json_file' = disabled_features_json
    /\ pc' = IF out_of_place_only THEN "L80" ELSE "L56"
    /\ UNCHANGED << out_of_place_only, includes, ignores, todo, proc, walk,
                    source, contents, f, fs, orig, opened, order, hipifyCalls >>

\* lines 49-52: json_file = "", then the branch on the flag
Branch ==
    /\ pc = "L49"
    /\ IF out_of_place_only
       THEN /\ json_file' = ""
            /\ pc' = "L80"
       ELSE /\ json_file' = disabled_features_json
            /\ pc' = "L56"
    /\ UNCHANGED << out_of_place_only, includes, ignores, todo, proc, walk,
                    source, contents, f, fs, orig, opened, order, hipifyCalls >>

\* line 56: os.listdir of the patches folder
ListDir ==
    /\ pc = "L56"
    /\ todo' = Patches
    /\ pc' = "L57"
    /\ UNCHANGED << out_of_place_only, json_file, includes, ignores, proc,
                    walk, source, contents, f, fs, orig, opened, order,
                    hipifyCalls >>

\* the launch as subprocess.check_call would make it: every git apply
\* launched before has exited with status 0
LaunchPatchChecked(p) ==
    /\ pc = "L57"
    /\ p \in todo
    /\ \A q \in Patches : proc[q] \in { "none", "exit0" }
    /\ proc' = [ proc EXCEPT ![p] = "running" ]
    /\ todo' = todo \ { p }
    /\ UNCHANGED << out_of_place_only, pc, json_file, includes, ignores, walk,
                    source, contents, f, fs, orig, opened, order, hipifyCalls >>

\* line 57: subprocess.Popen(["git", "apply", patch], cwd=proj_dir); the Popen
\* object is dropped, the child runs on
LaunchPatch(p) ==
    /\ pc = "L57"
    /\ p \in todo
    /\ proc' = [ proc EXCEPT ![p] = "running" ]
    /\ todo' = todo \ { p }
    /\ UNCHANGED << out_of_place_only, pc, json_file, includes, ignores, walk,
                    source, contents, f, fs, orig, opened, order, hipifyCalls >>

\* the walk started at the project root instead of its torch subdirectory
WalkTopProject == proj_dir

\* the directory the substitution pass walks
WalkTop == torch_dir

\* line 62: the patch loop is over, os.walk starts
BeginWalk ==
    /\ pc = "L57"
    /\ todo = {}
    /\ walk' = Walk(WalkTop, order)
    /\ pc' = "L63"
    /\ UNCHANGED << out_of_place_only, json_file, includes, ignores, todo,
                    proc, source, contents, f, fs, orig, opened, order,
                    hipifyCalls >>

\* lines 63-68: the next file of the walk, the extension test, the join and
\* the exclusion test
NextFile ==
    /\ pc = "L63"
    /\ walk # << >>
    /\ LET root == Head(walk)[1]
           filename == Head(walk)[2]
       IN  IF IsCppOrHeader(filename)
           THEN /\ source' = Join(root, filename)
                /\ pc' = IF IsDisabledFile(Join(root, filename))
                         THEN "L63" ELSE "L70"
           ELSE UNCHANGED << source, pc >>
    /\ walk' = Tail(walk)
    /\ UNCHANGED << out_of_place_only, json_file, includes, ignores, todo,
                    proc, contents, f, fs, orig, opened, order, hipifyCalls >>

\* line 70: open(source, "r+")
Open ==
    /\ pc = "L70"
    /\ f' = [ path |-> source, pos |-> 0, buf |-> "" ]
    /\ opened' = opened \cup { source }
    /\ pc' = "L71"
    /\ UNCHANGED << out_of_place_only, json_file, includes, ignores, todo,
                    proc, walk, source, contents, fs, orig, order, hipifyCalls >>

\* line 71: contents = f.read()
Read ==
    /\ pc = "L71"
    /\ contents' = fs[f.path]
    /\ f' = [ f EXCEPT !.pos = Len(fs[f.path]) ]
    /\ pc' = "L72"
    /\ UNCHANGED << out_of_place_only, json_file, includes, ignores, todo,
                    proc, walk, source, fs, orig, opened, order, hipifyCalls >>

\* line 72 with a count of 1: only the first occurrence is replaced
ReplaceUseCudaOnce(c) ==
    IF \E i \in 1..(Len(c) - 7) : SubSeq(c, i, i + 7) = "USE_CUDA"
    THEN LET i == CHOOSE j \in 1..(Len(c) - 7) :
                      /\ SubSeq(c, j, j + 7) = "USE_CUDA"
                      /\ \A k \in 1..(j - 1) : SubSeq(c, k, k + 7) # "USE_CUDA"
         IN  SubSeq(c, 1, i - 1) \o "USE_ROCM" \o SubSeq(c, i + 8, Len(c))
    ELSE c

\* line 72
ReplaceUseCuda(c) == Replace(c, "USE_CUDA", "USE_ROCM")
\* line 73
ReplaceCudaVersion(c) == Replace(c, "CUDA_VERSION", "0")

\* line 72: contents = contents.replace("USE_CUDA", "USE_ROCM")
Replace1 ==
    /\ pc = "L72"
    /\ contents' = ReplaceUseCuda(contents)
    /\ pc' = "L73"
    /\ UNCHANGED << out_of_place_only, json_file, includes, ignores, todo,
                    proc, walk, source, f, fs, orig, opened, order, hipifyCalls >>

\* line 73: contents = contents.replace("CUDA_VERSION", "0")
Replace2 ==
    /\ pc = "L73"
    /\ contents' = ReplaceCudaVersion(contents)
    /\ pc' = "L74"
    /\ UNCHANGED << out_of_place_only, json_file, includes, ignores, todo,
                    proc, walk, source, f, fs, orig, opened, order, hipifyCalls >>

\* line 74: f.seek(0)
Seek ==
    /\ pc = "L74"
    /\ f' = [ f EXCEPT !.pos = 0 ]
    /\ pc' = "L75"
    /\ UNCHANGED << out_of_place_only, json_file, includes, ignores, todo,
                    proc, walk, source, contents, fs, orig, opened, order,
                    hipifyCalls >>

\* line 75: f.write(contents); the text goes to the file object's buffer
Write ==
    /\ pc = "L75"
    /\ f' = [ f EXCEPT !.buf = contents, !.pos = f.pos + Len(contents) ]
    /\ pc' = "L76"
    /\ UNCHANGED << out_of_place_only, json_file, includes, ignores, todo,
                    proc, walk, source, contents, fs, orig, opened, order,
                    hipifyCalls >>

\* line 76, first half: f.truncate() flushes the buffer: the text is written
\* over the start of the file, the rest of the old content is still there
TruncateFlush ==
    /\ pc = "L76"
    /\ fs' = [ fs EXCEPT ![f.path] = Overwrite(fs[f.path], f.pos - Len(f.buf), f.buf) ]
    /\ f' = [ f EXCEPT !.buf = "" ]
    /\ pc' = "L76b"
    /\ UNCHANGED << out_of_place_only, json_file, includes, ignores, todo,
                    proc, walk, source, contents, orig, opened, order,
                    hipifyCalls >>

\* line 76 without the cut: the file keeps its length
TruncateCutMissing ==
    /\ pc = "L76b"
    /\ pc' = "L77"
    /\ UNCHANGED << out_of_place_only, json_file, includes, ignores, todo,
                    proc, walk, source, contents, f, fs, orig, opened, order,
                    hipifyCalls >>

\* line 76, second half: the file is cut at the current position
TruncateCut ==
    /\ pc = "L76b"
    /\ fs' = [ fs EXCEPT ![f.path] = SubSeq(fs[f.path], 1, f.pos) ]
    /\ pc' = "L77"
    /\ UNCHANGED << out_of_place_only, json_file, includes, ignores, todo,
                    proc, walk, source, contents, f, orig, opened, order,
                    hipifyCalls >>

\* line 77: f.flush(), the buffer is already empty
Flush ==
    /\ pc = "L77"
    /\ pc' = "L78"
    /\ UNCHANGED << out_of_place_only, json_file, includes, ignores, todo,
                    proc, walk, source, contents, f, fs, orig, opened, order,
                    hipifyCalls >>

\* line 78: os.fsync(f)
Fsync ==
    /\ pc = "L78"
    /\ pc' = "L79"
    /\ UNCHANGED << out_of_place_only, json_file, includes, ignores, todo,
                    proc, walk, source, contents, f, fs, orig, opened, order,
                    hipifyCalls >>

\* end of the with block (line 70): the file is closed, the walk goes on
Close ==
    /\ pc = "L79"
    /\ f' = NoFile
    /\ pc' = "L63"
    /\ UNCHANGED << out_of_place_only, json_file, includes, ignores, todo,
                    proc, walk, source, contents, fs, orig, opened, order,
                    hipifyCalls >>

\* the walk left before os.walk is exhausted
EndWalkEarly ==
    /\ pc = "L63"
    /\ pc' = "L80"
    /\ UNCHANGED << out_of_place_only, json_file, includes, ignores, todo,
                    proc, walk, source, contents, f, fs, orig, opened, order,
                    hipifyCalls >>

\* line 62: os.walk is exhausted
EndWalk ==
    /\ pc = "L63"
    /\ walk = << >>
    /\ pc' = "L80"
    /\ UNCHANGED << out_of_place_only, json_file, includes, ignores, todo,
                    proc, walk, source, contents, f, fs, orig, opened, order,
                    hipifyCalls >>

\* the call with a torch pattern added to the includes of the in-place run
HipifyArgsFlagDependent ==
    [ project_directory |-> proj_dir,
      output_directory |-> proj_dir,
      includes |-> IF out_of_place_only THEN includes
                   ELSE Append(includes, "torch/csrc/*"),
      ignores |-> ignores,
      out_of_place_only |-> out_of_place_only,
      json_settings |-> json_file,
      add_static_casts_option |-> TRUE ]

\* lines 80-87: the keyword arguments of the hipify call
HipifyArgs ==
    [ project_directory |-> proj_dir,
      output_directory |-> proj_dir,
      includes |-> includes,
      ignores |-> ignores,
      out_of_place_only |-> out_of_place_only,
      json_settings |-> json_file,
      add_static_casts_option |-> TRUE ]

\* lines 80-87: hipify_python.hipify(...); what the library does to the
\* tree is outside this model
Hipify ==
    /\ pc = "L80"
    /\ hipifyCalls' = Append(hipifyCalls, HipifyArgs)
    /\ pc' = "done"
    /\ UNCHANGED << out_of_place_only, json_file, includes, ignores, todo,
                    proc, walk, source, contents, f, fs, orig, opened, order >>

\* the lines that make a system call on a file, a directory or a process
IOLines == { "L56", "L57", "L70", "L71", "L76", "L76b", "L78" }

\* an OSError handled by putting every file back to its original content
IOErrorRollback ==
    /\ pc \in IOLines
    /\ pc' = "crashed"
    /\ f' = NoFile
    /\ fs' = orig
    /\ UNCHANGED << out_of_place_only, json_file, includes, ignores, todo,
                    proc, walk, source, contents, orig, opened, order,
                    hipifyCalls >>

\* an OSError at one of those lines: nothing catches it, the with block (if
\* entered) closes the file, which tries to flush what is buffered, and the
\* interpreter exits with a traceback
IOError ==
    /\ pc \in IOLines
    /\ pc' = "crashed"
    /\ f' = NoFile
    /\ IF f.buf # ""
       THEN \/ fs' = fs
            \/ fs' = [ fs EXCEPT ![f.path] = Overwrite(fs[f.path], f.pos - Len(f.buf), f.buf) ]
       ELSE fs' = fs
    /\ UNCHANGED << out_of_place_only, json_file, includes, ignores, todo,
                    proc, walk, source, contents, orig, opened, order,
                    hipifyCalls >>

\* a running git apply changes its target file and exits with status 0
ProcApply(p) ==
    /\ proc[p] = "running"
    /\ proc' = [ proc EXCEPT ![p] = "exit0" ]
    /\ fs' = [ fs EXCEPT ![PatchTarget(p)] = PatchText(fs[PatchTarget(p)]) ]
    /\ UNCHANGED << out_of_place_only, pc, json_file, includes, ignores, todo,
                    walk, source, contents, f, orig, opened, order, hipifyCalls >>

\* a running git apply rejects its patch and exits with status 1, changing
\* nothing
ProcFail(p) ==
    /\ proc[p] = "running"
    /\ proc' = [ proc EXCEPT ![p] = "exit1" ]
    /\ UNCHANGED << out_of_place_only, pc, json_file, includes, ignores, todo,
                    walk, source, contents, f, fs, orig, opened, order,
                    hipifyCalls >>

\* the steps of the script itself
ScriptStep ==
    \/ Branch
    \/ ListDir
    \/ \E p \in Patches : LaunchPatch(p)
    \/ BeginWalk
    \/ NextFile
    \/ Open
    \/ Read
    \/ Replace1
    \/ Replace2
    \/ Seek
    \/ Write
    \/ TruncateFlush
    \/ TruncateCut
    \/ Flush
    \/ Fsync
    \/ Close
    \/ EndWalk
    \/ Hipify

Next ==
    \/ ScriptStep
    \/ IOError
    \/ \E p \in Patches : ProcApply(p)
    \/ \E p \in Patches : ProcFail(p)

Spec == Init /\ [][Next]_vars

\* the interpreter keeps running the script; nothing is assumed of the
\* git apply children
FairSpec == Spec /\ WF_vars(ScriptStep)

\* ------------------------------------------------------------- properties
\* a git apply child has written the file
Patched(path) ==
    \E q \in Patches : proc[q] = "exit0" /\ PatchTarget(q) = path

\* the path ends with one of the three exempted strings
HasExemptSuffix(path) ==
    \/ EndsWith(path, "csrc/autograd/profiler.h")
    \/ EndsWith(path, "csrc/autograd/profiler.cpp")
    \/ EndsWith(path, "csrc/cuda/cuda_check.h")

\* the path is one of the three exempted files of the torch directory
IsNamedExempt(path) ==
    path \in { "/pytorch/torch/csrc/autograd/profiler.h",
               "/pytorch/torch/csrc/autograd/profiler.cpp",
               "/pytorch/torch/csrc/cuda/cuda_check.h" }

\* a .cpp or .h file below <proj>/torch
TorchSource(path) ==
    /\ StartsWith(path, "/pytorch/torch/")
    /\ EndsWith(path, ".cpp") \/ EndsWith(path, ".h")

\* the text with USE_CUDA replaced, then CUDA_VERSION replaced in the result
UseThenVersion(c) ==
    Replace(Replace(c, "USE_CUDA", "USE_ROCM"), "CUDA_VERSION", "0")

\* the text with CUDA_VERSION replaced, then USE_CUDA replaced in the result
VersionThenUse(c) ==
    Replace(Replace(c, "CUDA_VERSION", "0"), "USE_CUDA", "USE_ROCM")

\* the substitution pass is over
PassOver == ~out_of_place_only /\ pc \in { "L80", "done" }

\* C1: with --out-of-place-only set no git apply process is ever launched,
\* the script opens no file, no file content changes, and the script is
\* only ever at the branch, at the hipify call or finished.
C1_OutOfPlaceOnlySkips ==
    out_of_place_only =>
        /\ \A p \in Patches : proc[p] = "none"
        /\ todo = {}
        /\ opened = {}
        /\ f = NoFile
        /\ fs = orig
        /\ pc \in { "L49", "L80", "done" }

C1_Witness ==
    /\ out_of_place_only
    /\ pc = "done"
    /\ Len(hipifyCalls) = 1
    /\ \E p \in Paths : orig[p] = "USE_CUDA"

\* C2 as claimed: after the pass every .cpp/.h file below torch without an
\* exempt suffix (and that no git apply wrote) holds its original text with
\* every occurrence of USE_CUDA replaced and every occurrence of
\* CUDA_VERSION replaced, the occurrences being those of the original text,
\* so that the result is the same whichever marker is replaced first.
C2_AsClaimed ==
    PassOver =>
        \A p \in Paths :
            (TorchSource(p) /\ ~HasExemptSuffix(p) /\ ~Patched(p)) =>
                /\ fs[p] = UseThenVersion(orig[p])
                /\ fs[p] = VersionThenUse(orig[p])

\* C2 amended: after the pass every such file that no git apply wrote holds
\* its original text with every USE_CUDA replaced by USE_ROCM and then every
\* CUDA_VERSION that is left in the result replaced by 0.
C2_SequentialReplace ==
    PassOver =>
        \A p \in Paths :
            (TorchSource(p) /\ ~HasExemptSuffix(p) /\ ~Patched(p)) =>
                fs[p] = UseThenVersion(orig[p])

C2_Witness ==
    /\ PassOver
    /\ \E p \in Paths :
        /\ TorchSource(p) /\ ~HasExemptSuffix(p) /\ ~Patched(p)
        /\ orig[p] = "USE_CUDA_VERSION"
        /\ fs[p] = "USE_ROCM_VERSION"

\* C3 as claimed: every file outside <proj>/torch holds its original content
\* in every state of the run.
C3_AsClaimed ==
    \A p \in Paths : ~StartsWith(p, "/pytorch/torch/") => fs[p] = orig[p]

\* C3 amended: the script never opens a file outside <proj>/torch, and a
\* file outside <proj>/torch differs from its original content only when a
\* git apply child has written it.
C3_ScriptStaysInTorch ==
    \A p \in Paths :
        ~StartsWith(p, "/pytorch/torch/") =>
            /\ p \notin opened
            /\ ~Patched(p) => fs[p] = orig[p]

C3_Witness ==
    /\ PassOver
    /\ \E p \in Paths : StartsWith(p, "/pytorch/torch/") /\ p \in opened
                        /\ fs[p] # orig[p]
    /\ \E p \in Paths : ~StartsWith(p, "/pytorch/torch/") /\ Patched(p)
                        /\ fs[p] # orig[p]

\* C4: the two lists are never changed, and every hipify call receives the
\* 15 include patterns and the 4 ignore patterns, whatever the flag is.
C4_StaticLists ==
    /\ includes = INCLUDES
    /\ ignores = IGNORES
    /\ \A i \in 1..Len(hipifyCalls) :
        /\ hipifyCalls[i].includes = INCLUDES
        /\ hipifyCalls[i].ignores = IGNORES
        /\ Len(hipifyCalls[i].includes) = 15
        /\ Len(hipifyCalls[i].ignores) = 4

C4_Witness ==
    /\ ~out_of_place_only
    /\ opened # {}
    /\ Len(hipifyCalls) = 1
    /\ hipifyCalls[1].out_of_place_only = FALSE

\* C5 as claimed: after the pass the files the script has opened are all the
\* .cpp/.h files below torch except the three named files.
C5_AsClaimed ==
    PassOver =>
        opened = { p \in Paths : TorchSource(p) /\ ~IsNamedExempt(p) }

\* C5 amended: after the pass the files the script has opened are all the
\* .cpp/.h files below torch except those whose full path ends with one of
\* the three strings; a file with such a path is never opened and keeps its
\* content unless a git apply child writes it.
C5_SuffixExempt ==
    /\ PassOver =>
        opened = { p \in Paths : TorchSource(p) /\ ~HasExemptSuffix(p) }
    /\ \A p \in Paths :
        HasExemptSuffix(p) =>
            /\ p \notin opened
            /\ ~Patched(p) => fs[p] = orig[p]

C5_Witness ==
    /\ PassOver
    /\ "/pytorch/torch/foo/xcsrc/cuda/cuda_check.h" \notin opened
    /\ fs["/pytorch/torch/foo/xcsrc/cuda/cuda_check.h"] = "USE_CUDA"
    /\ "/pytorch/torch/csrc/utils/cuda_enabled.h" \in opened
    /\ fs["/pytorch/torch/csrc/utils/cuda_enabled.h"] = "USE_ROCM"

\* a git apply child writes the file in this step
PatchWrites(path) ==
    \E q \in Patches :
        proc[q] = "running" /\ proc'[q] = "exit0" /\ PatchTarget(q) = path

\* C6: whatever state the git apply children are in (running, exited with 0,
\* exited with 1), the script can launch the next patch, go on to the
\* substitution pass and call hipify; once it is past the patch loop every
\* patch of the folder has been launched.
C6_PatchStatusIgnored ==
    /\ (pc = "L57" /\ todo # {}) => \A p \in todo : ENABLED LaunchPatch(p)
    /\ (pc = "L57" /\ todo = {}) => ENABLED BeginWalk
    /\ pc = "L80" => ENABLED Hipify
    /\ (~out_of_place_only /\ pc \notin { "L49", "L56", "L57", "crashed" }) =>
            \A p \in Patches : proc[p] # "none"

C6_Witness ==
    /\ pc = "done"
    /\ \E p \in Patches : proc[p] = "exit1"
    /\ \E p \in Patches : proc[p] = "running"

\* C7: once an OSError has ended the script, the script does nothing more:
\* it stays ended, hipify is not called (and never was), no file is
\* opened, and a file changes only when a git apply child writes it; the
\* step that ends the script leaves every file other than the one being
\* rewritten as it was (no rollback).
C7_ErrorEndsScript ==
    /\ [](pc = "crashed" => hipifyCalls = << >> /\ f = NoFile)
    /\ [][pc = "crashed" =>
            /\ pc' = "crashed"
            /\ hipifyCalls' = hipifyCalls
            /\ opened' = opened
            /\ f' = f
            /\ \A p \in Paths : fs'[p] # fs[p] => PatchWrites(p)]_vars
    /\ [][(pc # "crashed" /\ pc' = "crashed") =>
            \A p \in Paths : p # f.path => fs'[p] = fs[p]]_vars

C7_Witness ==
    /\ pc = "crashed"
    /\ source \in opened
    /\ \E p \in opened :
        /\ p # source
        /\ fs[p] # orig[p]
        /\ fs[p] = UseThenVersion(orig[p])

\* the git apply children that have been launched and have not exited
Running == { p \in Patches : proc[p] = "running" }

\* C8 as claimed: at most one git apply child runs at a time, and none is
\* running once the script has opened a file or called hipify.
C8_AsClaimed ==
    /\ Cardinality(Running) <= 1
    /\ (opened # {} \/ hipifyCalls # << >>) => Running = {}

\* C8 amended: the steps of the script itself never overlap: during the
\* patch loop no file has been opened, a file is open only between open and
\* close of the substitution pass with every patch launched, and hipify is
\* called only when the walk is over and no file is open.  The git apply
\* children are not waited for and run alongside all of these.
C8_ScriptSequential ==
    /\ pc \in { "L49", "L56", "L57" } =>
            opened = {} /\ f = NoFile /\ hipifyCalls = << >>
    /\ f # NoFile =>
            /\ pc \in { "L71", "L72", "L73", "L74", "L75", "L76", "L76b",
                        "L77", "L78", "L79" }
            /\ f.path = source
            /\ todo = {}
            /\ \A p \in Patches : proc[p] # "none"
            /\ hipifyCalls = << >>
    /\ hipifyCalls # << >> =>
            /\ pc = "done"
            /\ f = NoFile
            /\ walk = << >>
            /\ todo = {}

C8_Witness ==
    /\ Cardinality(Running) = 2
    /\ f # NoFile
    /\ f.buf # ""
    /\ \E p \in Running : PatchTarget(p) = f.path

C10_HipifyLast ==
    /\ [] /\ Len(hipifyCalls) <= 1
          /\ pc = "done" <=> Len(hipifyCalls) = 1
          /\ pc = "L70" => f = NoFile
          /\ \A i \in 1..Len(hipifyCalls) :
                /\ f = NoFile /\ walk = << >> /\ todo = {}
                /\ hipifyCalls[i].out_of_place_only = out_of_place_only
                /\ hipifyCalls[i].json_settings =
                      IF out_of_place_only THEN ""
                      ELSE "/pytorch/tools/amd_build/disabled_features.json"
                /\ hipifyCalls[i].project_directory = "/pytorch"
                /\ hipifyCalls[i].output_directory = "/pytorch"
                /\ hipifyCalls[i].add_static_casts_option
                /\ out_of_place_only => opened = {}
                /\ ~out_of_place_only =>
                      /\ \A p \in Patches : proc[p] # "none"
                      /\ opened = { p \in Paths :
                                      TorchSource(p) /\ ~HasExemptSuffix(p) }
    /\ <>(pc \in { "done", "crashed" })

C10_Witness ==
    /\ pc = "done"
    /\ ~out_of_place_only
    /\ Len(hipifyCalls) = 1
    /\ hipifyCalls[1].json_settings # ""
    /\ \E p \in opened : fs[p] # orig[p]

====
